---- MODULE Spec2Model ----
(***************************************************************************)
(* DatabaseManager of src/database.py: one asyncpg pool handle, the         *)
(* gemini_accounts table behind it, and the coroutines of its methods.      *)
(* A coroutine runs atomically between two awaits; every await of the       *)
(* source (create_pool, pool.acquire, conn.execute / conn.fetch, the        *)
(* release on leaving "async with", pool.close) is one step of the model.   *)
(***************************************************************************)
EXTENDS Bags, FiniteSets, Integers, Sequences, TLC

VARIABLES
  database_url,  \* self.database_url: the configured URL, or None
  pool,          \* self.pool: None or the handle create_pool returned
  poolState,     \* the asyncpg pool behind the handle: absent/open/closing/closed
  out,           \* connections of the pool that are checked out
  tableExists,   \* gemini_accounts exists in the database
  table,         \* the rows of gemini_accounts
  nextId,        \* next value of the SERIAL sequence behind id
  clock,         \* the database clock read by NOW() / CURRENT_TIMESTAMP
  inflight,      \* bag of coroutines suspended at an await
  callers,       \* how many coroutines the service layer runs at once
  last,          \* what the most recently ended CRUD/usage/disconnect call gave its caller
  startup,       \* what connect() gave its caller, and which step failed
  inputs,        \* the arguments the service layer passes: accounts and update dicts
  ended          \* per id: increment_account_usage calls that updated its row and returned

vars == <<database_url, pool, poolState, out, tableExists, table, nextId, clock,
          inflight, callers, inputs, last, startup, ended>>

----------------------------------------------------------------------------
(* Bounds of the model: ids the sequence hands out, ticks of the clock,    *)
(* the largest request_count, rows a used database starts with             *)
MaxId == 2
MaxClock == 2
MaxCount == 2
MaxRows == 3

(* The coroutines the service layer runs at once, and the ids it passes *)
Tasks == {"t1", "t2"}
CallIds == {1, 2}

(* asyncpg.create_pool(..., max_size=10) *)
max_size == 10

None == "None"
Url == "postgres://db"
Handle == "Pool"

(* A nullable timestamp: {} is NULL, {t} is the time t *)
NULL == {}
Ts(t) == {t}

(* The arguments of add_account, in the order of its parameters *)
Acct1 == <<"acct1", "sc1", "", "idx1", "cfg1">>

AccountInputs ==
  { Acct1,
    <<None, "sc2", None, "idx2", "cfg2">>,
    <<"acct3", None, "h3", "idx3", "cfg3">> }

NoAcct == <<None, None, None, None, None>>

(* A dict handed to update_account: per key {} when the key is absent,     *)
(* {v} when it maps to v.                                                  *)
DataKeys == {"name", "secure_c_ses", "host_c_oses", "csesidx", "config_id",
             "is_active", "id", "request_count", "bogus"}

EmptyData == [k \in DataKeys |-> {}]

Data(d) == [k \in DataKeys |-> IF k \in DOMAIN d THEN {d[k]} ELSE {}]

AllKeys ==
  Data([name |-> "n6", secure_c_ses |-> "s6", host_c_oses |-> "h6",
        csesidx |-> "i6", config_id |-> "c6", is_active |-> FALSE,
        request_count |-> 9])

UpdateInputs ==
  { EmptyData,
    Data([name |-> "X"]),
    Data([is_active |-> FALSE]),
    Data([is_active |-> TRUE, bogus |-> "b"]),
    Data([id |-> 7, request_count |-> 9, bogus |-> "b"]),
    AllKeys,
    Data([secure_c_ses |-> None]) }

----------------------------------------------------------------------------
(* The table *)

(* The row an INSERT of the account a makes at the time now: is_active,    *)
(* request_count and created_at take their column defaults                 *)
Row(id, a, now) ==
  [id |-> id, name |-> a[1], secure_c_ses |-> a[2], host_c_oses |-> a[3],
   csesidx |-> a[4], config_id |-> a[5], is_active |-> TRUE,
   request_count |-> 0, last_used_at |-> NULL, created_at |-> Ts(now)]

NewRow(id, a) == Row(id, a, clock)

NotNullColumns == {"secure_c_ses", "csesidx", "config_id"}

RowsWithId(id) == {r \in table : r.id = id}

(* What a statement can do: fail, or run *)
Fail ==
  [ok |-> FALSE, table |-> table, nextId |-> nextId, exists |-> tableExists,
   result |-> <<>>]

Ran(t, n, res) ==
  [ok |-> TRUE, table |-> t, nextId |-> n, exists |-> tableExists,
   result |-> res]

(* The element of a one-element set *)
The(s) == CHOOSE x \in s : TRUE

(* Faulty variant of OrderLe: plain ASC, which puts NULL last *)
NullsLast(a, b) ==
  \/ b.last_used_at = NULL
  \/ a.last_used_at # NULL /\ The(a.last_used_at) <= The(b.last_used_at)

(* ORDER BY last_used_at ASC NULLS FIRST *)
OrderLe(a, b) ==
  \/ a.last_used_at = NULL
  \/ b.last_used_at # NULL /\ The(a.last_used_at) <= The(b.last_used_at)

(* ORDER BY id ASC *)
IdLe(a, b) == a.id <= b.id

(* Every arrangement of the rows S in a sequence *)
Arrangements(S) ==
  {s \in [1..Cardinality(S) -> S] :
     \A i, j \in 1..Cardinality(S) : i # j => s[i] # s[j]}

(* The sequences a sort of S by last_used_at, or by id, can return: rows   *)
(* that compare equal come back in an order the database chooses.          *)
ByLastUsed(S) ==
  {s \in Arrangements(S) : \A i, j \in 1..Cardinality(S) : i < j => OrderLe(s[i], s[j])}

ById(S) ==
  {s \in Arrangements(S) : \A i, j \in 1..Cardinality(S) : i < j => IdLe(s[i], s[j])}

(* SELECT * FROM gemini_accounts WHERE is_active = TRUE *)
ActiveRows == {r \in table : r.is_active = TRUE}

FetchActiveStmt == {Ran(table, nextId, s) : s \in ByLastUsed(ActiveRows)}

GetAllStmt == {Ran(table, nextId, s) : s \in ById(table)}

(* UPDATE ... SET last_used_at = NOW(), request_count = request_count + 1 WHERE id = $1 *)
IncrementStmt(id) ==
  Ran((table \ RowsWithId(id)) \cup
        {[r EXCEPT !.last_used_at = Ts(clock), !.request_count = @ + 1] :
           r \in RowsWithId(id)},
      nextId, <<>>)

(* Faulty variant of TouchStmt: the legacy method redirected to the        *)
(* increment                                                               *)
TouchRedirected(id) == IncrementStmt(id)

(* UPDATE ... SET last_used_at = NOW() WHERE id = $1 *)
TouchStmt(id) ==
  Ran((table \ RowsWithId(id)) \cup
        {[r EXCEPT !.last_used_at = Ts(clock)] : r \in RowsWithId(id)},
      nextId, <<>>)

(* Faulty variant of InsertStmt: the id taken from the number of rows *)
InsertCounting(a) ==
  IF a[2] = None \/ a[4] = None \/ a[5] = None
  THEN [Fail EXCEPT !.nextId = nextId + 1]
  ELSE Ran(table \cup {NewRow(Cardinality(table) + 1, a)}, nextId + 1, <<>>)

(* INSERT INTO gemini_accounts (name, secure_c_ses, host_c_oses, csesidx,  *)
(* config_id) VALUES (...): the sequence value is drawn before the NOT     *)
(* NULL check, and a failed insert does not give it back.                  *)
InsertStmt(a) ==
  IF a[2] = None \/ a[4] = None \/ a[5] = None
  THEN [Fail EXCEPT !.nextId = nextId + 1]
  ELSE Ran(table \cup {NewRow(nextId, a)}, nextId + 1, <<>>)

(* Faulty variant of DeleteStmt: the WHERE clause left out *)
DeleteWithoutWhere(id) == Ran({}, nextId, <<>>)

(* DELETE FROM gemini_accounts WHERE id = $1 *)
DeleteStmt(id) ==
  Ran(table \ RowsWithId(id), nextId, <<>>)

(* Faulty variant of MutableKeys: request_count let through *)
MutableKeysWide ==
  <<"name", "secure_c_ses", "host_c_oses", "csesidx", "config_id", "is_active",
    "request_count">>

(* update_account: the loop that builds set_clauses and values *)
MutableKeys ==
  <<"name", "secure_c_ses", "host_c_oses", "csesidx", "config_id", "is_active">>

HasKey(data, k) == data[k] # {}

SetClauses(data) == SelectSeq(MutableKeys, LAMBDA k : HasKey(data, k))

Values(data) ==
  [i \in 1..Len(SetClauses(data)) |-> The(data[SetClauses(data)[i]])]

(* The value of column c of row r after SET clauses[i] = values[i] *)
Col(r, c, clauses, values) ==
  IF \E i \in 1..Len(clauses) : clauses[i] = c
  THEN values[CHOOSE i \in 1..Len(clauses) : clauses[i] = c]
  ELSE r[c]

SetRow(r, clauses, values) ==
  [id |-> Col(r, "id", clauses, values),
   name |-> Col(r, "name", clauses, values),
   secure_c_ses |-> Col(r, "secure_c_ses", clauses, values),
   host_c_oses |-> Col(r, "host_c_oses", clauses, values),
   csesidx |-> Col(r, "csesidx", clauses, values),
   config_id |-> Col(r, "config_id", clauses, values),
   is_active |-> Col(r, "is_active", clauses, values),
   request_count |-> Col(r, "request_count", clauses, values),
   last_used_at |-> Col(r, "last_used_at", clauses, values),
   created_at |-> Col(r, "created_at", clauses, values)]

(* UPDATE gemini_accounts SET <set_clauses> WHERE id = $idx *)
UpdateStmt(id, data) ==
  LET new == {SetRow(r, SetClauses(data), Values(data)) : r \in RowsWithId(id)}
  IN  IF \E r \in new : \E c \in NotNullColumns : r[c] = None
      THEN Fail
      ELSE Ran((table \ RowsWithId(id)) \cup new, nextId, <<>>)

(* CREATE TABLE IF NOT EXISTS ...; ALTER TABLE ... ADD COLUMN IF NOT       *)
(* EXISTS ...; CREATE INDEX IF NOT EXISTS ...                              *)
SchemaStmt == [Ran(table, nextId, <<>>) EXCEPT !.exists = TRUE]

----------------------------------------------------------------------------
(* Coroutines *)

ReadOps == {"fetch_active_accounts", "get_all_accounts"}

(* A coroutine that passed the "if not self.pool" test and is about to     *)
(* await self.pool.acquire()                                                *)
Op(op, id, acct, data) ==
  [op |-> op, id |-> id, acct |-> acct, data |-> data, phase |-> "acquiring",
   conns |-> 0, acquired |-> FALSE, ok |-> TRUE, matched |-> FALSE,
   result |-> <<>>,
   afterClose |-> poolState \in {"closing", "closed"}]

InFlight == BagToSet(inflight)

Move(r, r2) == inflight' = (inflight (-) SetToBag({r})) (+) SetToBag({r2})

(* Faulty variant of Disabled: the test left out *)
NeverDisabled == FALSE

(* "if not self.pool": the test that opens every CRUD/usage method *)
Disabled == pool = None

Returned(op) ==
  [op |-> op, outcome |-> "returned", result |-> <<>>,
   acquired |-> FALSE, executed |-> FALSE, afterClose |-> FALSE]

Ended(r, outcome) ==
  [op |-> r.op, outcome |-> outcome, result |-> r.result,
   acquired |-> r.acquired, executed |-> r.phase = "releasing",
   afterClose |-> r.afterClose]

(* How many coroutines of the method op on id have not run their statement *)
Pending(op, id) ==
  BagCardinality([r \in {x \in InFlight : x.op = op /\ x.id = id /\
                                          x.phase \in {"acquiring", "holding"}}
                    |-> CopiesIn(r, inflight)])

RequestCount(id) ==
  IF RowsWithId(id) = {} THEN 0 ELSE (The(RowsWithId(id))).request_count

(* A method is called: it returns at once when the store is disabled,      *)
(* otherwise it goes on to acquire a connection.                            *)
Call(op, id, acct, data) ==
  /\ BagCardinality(inflight) < callers
  /\ IF Disabled
     THEN /\ last' = Returned(op)
          /\ UNCHANGED inflight
     ELSE /\ inflight' = inflight (+) SetToBag({Op(op, id, acct, data)})
          /\ UNCHANGED last
  /\ UNCHANGED <<database_url, pool, poolState, out, tableExists, table, nextId,
                 clock, callers, inputs, startup, ended>>

FetchActiveAccounts == Call("fetch_active_accounts", 0, NoAcct, EmptyData)

IncrementAccountUsage ==
  \E id \in CallIds :
    /\ RequestCount(id) + Pending("increment_account_usage", id) < MaxCount
    /\ Call("increment_account_usage", id, NoAcct, EmptyData)

UpdateAccountUsage == \E id \in CallIds : Call("update_account_usage", id, NoAcct, EmptyData)

AddAccount ==
  \E a \in inputs.accts :
    /\ nextId + Pending("add_account", 0) <= MaxId
    /\ Call("add_account", 0, a, EmptyData)

GetAllAccounts == Call("get_all_accounts", 0, NoAcct, EmptyData)

(* update_account returns before acquiring when set_clauses is empty *)
UpdateAccount ==
  \E id \in CallIds, data \in inputs.datas :
    IF ~Disabled /\ SetClauses(data) = <<>>
    THEN /\ BagCardinality(inflight) < callers
         /\ last' = Returned("update_account")
         /\ UNCHANGED <<database_url, pool, poolState, out, tableExists, table,
                        nextId, clock, inflight, callers, inputs, startup, ended>>
    ELSE Call("update_account", id, NoAcct, data)

DeleteAccount == \E id \in CallIds : Call("delete_account", id, NoAcct, EmptyData)

(* Faulty variant of ConnectEnd: the except clause logs and does not raise *)
ConnectSwallows(failure) == [outcome |-> "returned", failure |-> failure]

(* connect(): lines 27-30, what the caller of connect() gets when the     *)
(* step `failure` failed ("none" when no step did)                          *)
ConnectEnd(failure) ==
  [outcome |-> IF failure = "none" THEN "returned" ELSE "raised",
   failure |-> failure]

(* connect() is called, once, by the owner of the process *)
Connect ==
  /\ startup.outcome = "not called"
  /\ BagCardinality(inflight) < callers
  /\ IF database_url = None
     THEN /\ startup' = ConnectEnd("none")
          /\ UNCHANGED inflight
     ELSE /\ startup' = [startup EXCEPT !.outcome = "pending"]
          /\ inflight' = inflight (+)
               SetToBag({[Op("connect", 0, NoAcct, EmptyData) EXCEPT !.phase = "creating"]})
  /\ UNCHANGED <<database_url, pool, poolState, out, tableExists, table, nextId,
                 clock, callers, inputs, last, ended>>

(* Faulty variant of CreatedPool: the handle kept in a local only *)
CreatedPoolLost == pool

(* self.pool = await asyncpg.create_pool(...): what self.pool becomes *)
CreatedPool == Handle

(* await asyncpg.create_pool(...): the handle is stored, or the failure    *)
(* reaches the except clause with self.pool as it was                      *)
CreatePool ==
  \E r \in InFlight :
    /\ r.op = "connect" /\ r.phase = "creating"
    /\ \/ /\ pool' = CreatedPool
          /\ poolState' = "open"
          /\ Move(r, [r EXCEPT !.phase = "acquiring"])
          /\ UNCHANGED startup
       \/ /\ inflight' = inflight (-) SetToBag({r})
          /\ startup' = ConnectEnd("create_pool")
          /\ UNCHANGED <<pool, poolState>>
    /\ UNCHANGED <<database_url, out, tableExists, table, nextId, clock, callers, inputs,
                   last, ended>>

(* The coroutine r ends: its caller gets the result or the exception *)
End(r, ok) ==
  /\ inflight' = inflight (-) SetToBag({r})
  /\ IF r.op = "connect"
     THEN /\ startup' = ConnectEnd(IF ok THEN "none" ELSE "init_schema")
          /\ UNCHANGED last
     ELSE /\ last' = Ended(r, IF ok THEN "returned" ELSE "raised")
          /\ UNCHANGED startup
  /\ ended' = IF ok /\ r.matched THEN [ended EXCEPT ![r.id] = @ + 1] ELSE ended

(* await self.pool.acquire(): raises on a missing, closing or closed pool, *)
(* waits while max_size connections are checked out                        *)
Acquire ==
  \E r \in InFlight :
    /\ r.phase = "acquiring"
    /\ IF pool = None \/ poolState # "open"
       THEN /\ End(r, FALSE)
            /\ UNCHANGED out
       ELSE /\ out < max_size
            /\ out' = out + 1
            /\ Move(r, [r EXCEPT !.phase = "holding", !.conns = @ + 1,
                                 !.acquired = TRUE])
            /\ UNCHANGED <<last, startup, ended>>
    /\ UNCHANGED <<database_url, pool, poolState, tableExists, table, nextId,
                   clock, callers, inputs>>

(* The statement of each method *)
Statement(r) ==
  CASE r.op = "connect" -> {SchemaStmt}
    [] r.op = "fetch_active_accounts" -> FetchActiveStmt
    [] r.op = "increment_account_usage" -> {IncrementStmt(r.id)}
    [] r.op = "update_account_usage" -> {TouchStmt(r.id)}
    [] r.op = "add_account" -> {InsertStmt(r.acct)}
    [] r.op = "get_all_accounts" -> GetAllStmt
    [] r.op = "update_account" -> {UpdateStmt(r.id, r.data)}
    [] r.op = "delete_account" -> {DeleteStmt(r.id)}

(* A statement fails when its table is missing, and can fail for reasons   *)
(* of the database's own (a lost connection)                               *)
Outcomes(r) ==
  IF r.op # "connect" /\ ~tableExists THEN {Fail} ELSE {Fail} \cup Statement(r)

(* await conn.execute(...) / conn.fetch(...) *)
Execute ==
  \E r \in InFlight :
    /\ r.phase = "holding"
    /\ \E o \in Outcomes(r) :
         /\ table' = o.table
         /\ nextId' = o.nextId
         /\ tableExists' = o.exists
         /\ Move(r, [r EXCEPT !.phase = "releasing", !.ok = o.ok,
                              !.result = o.result,
                              !.matched = /\ r.op = "increment_account_usage"
                                          /\ o.ok /\ RowsWithId(r.id) # {}])
    /\ UNCHANGED <<database_url, pool, poolState, out, clock, callers, inputs, last,
                   startup, ended>>

(* Faulty variant of Released: the release skipped when the statement     *)
(* raised                                                                  *)
LeakedOnFailure(r) == IF r.ok THEN r.conns ELSE 0

(* Leaving "async with self.pool.acquire() as conn": the connections the   *)
(* coroutine gives back, after its statement ran or failed                 *)
Released(r) == r.conns

(* The connection goes back to the pool and the method ends *)
Release ==
  \E r \in InFlight :
    /\ r.phase = "releasing"
    /\ out' = out - Released(r)
    /\ End(r, r.ok)
    /\ UNCHANGED <<database_url, pool, poolState, tableExists, table, nextId,
                   clock, callers, inputs>>

(* Faulty variant of PoolAfterDisconnect: self.pool reset to None *)
PoolCleared == None

(* disconnect(): self.pool after the call *)
PoolAfterDisconnect == pool

(* disconnect(): "if self.pool: await self.pool.close()". close() marks    *)
(* the pool closing at once and returns at once on a closed pool.          *)
Disconnect ==
  /\ BagCardinality(inflight) < callers
  /\ IF pool = None \/ poolState = "closed"
     THEN /\ last' = Returned("disconnect")
          /\ UNCHANGED <<inflight, poolState, pool>>
     ELSE /\ poolState' = "closing"
          /\ pool' = PoolAfterDisconnect
          /\ inflight' = inflight (+)
               SetToBag({[Op("disconnect", 0, NoAcct, EmptyData) EXCEPT !.phase = "closing"]})
          /\ UNCHANGED last
  /\ UNCHANGED <<database_url, out, tableExists, table, nextId, clock, callers, inputs,
                 startup, ended>>

(* pool.close() ends once every connection is back in the pool *)
CloseDone ==
  \E r \in InFlight :
    /\ r.phase = "closing"
    /\ out = 0
    /\ poolState' = "closed"
    /\ End(r, TRUE)
    /\ UNCHANGED <<database_url, pool, out, tableExists, table, nextId, clock,
                   callers, inputs>>

(* The database clock advances *)
Tick ==
  /\ clock < MaxClock
  /\ clock' = clock + 1
  /\ UNCHANGED <<database_url, pool, poolState, out, tableExists, table, nextId,
                 inflight, callers, inputs, last, startup, ended>>

----------------------------------------------------------------------------
(* The database the URL names: a new one, or one an earlier run left *)
FreshDb == [exists |-> FALSE, table |-> {}, nextId |-> 1]

SeedRow ==
  [id |-> 1, name |-> "seed", secure_c_ses |-> "sc0", host_c_oses |-> None,
   csesidx |-> "idx0", config_id |-> "cfg0", is_active |-> TRUE,
   request_count |-> 1, last_used_at |-> Ts(0), created_at |-> Ts(0)]

IdleRow == [Row(2, Acct1, 0) EXCEPT !.is_active = FALSE]

UsedDb == [exists |-> TRUE, table |-> {SeedRow, IdleRow}, nextId |-> 3]

(* The rows with the id `id` that earlier runs can have left: added, then  *)
(* deactivated or not, then used at some time or never                     *)
UsedTimes == {0, 1}

LeftRows(id) ==
  {[Row(id, Acct1, 0) EXCEPT !.is_active = act, !.last_used_at = lu,
                             !.request_count = IF lu = NULL THEN 0 ELSE 1] :
     act \in BOOLEAN, lu \in {NULL} \cup {Ts(t) : t \in UsedTimes}}

(* The tables with ids up to n that earlier runs can have left *)
RECURSIVE LeftTables(_)
LeftTables(n) ==
  IF n = 0 THEN {{}}
  ELSE {t \cup e : t \in LeftTables(n - 1),
                   e \in {{}} \cup {{r} : r \in LeftRows(n)}}

LeftDbs(n) == {[exists |-> TRUE, table |-> t, nextId |-> n + 1] : t \in LeftTables(n)}

(* The state after DatabaseManager(), with the URL of the environment, n   *)
(* coroutines at most, the database db and the arguments callers pass      *)
InitWith(url, n, db, accts, datas) ==
  /\ database_url = url
  /\ inputs = [accts |-> accts, datas |-> datas]
  /\ pool = None
  /\ poolState = "absent"
  /\ out = 0
  /\ tableExists = db.exists
  /\ table = db.table
  /\ nextId = db.nextId
  /\ clock = 0
  /\ inflight = EmptyBag
  /\ callers = n
  /\ last = [Returned("none") EXCEPT !.outcome = "none"]
  /\ startup = [outcome |-> "not called", failure |-> "none"]
  /\ ended = [id \in CallIds |-> IF \E r \in db.table : r.id = id
                                    THEN (CHOOSE r \in db.table : r.id = id).request_count
                                    ELSE 0]

Init == InitWith(Url, Cardinality(Tasks), FreshDb, AccountInputs, UpdateInputs)

Next ==
  \/ Connect
  \/ CreatePool
  \/ Acquire
  \/ Execute
  \/ Release
  \/ Disconnect
  \/ CloseDone
  \/ FetchActiveAccounts
  \/ IncrementAccountUsage
  \/ UpdateAccountUsage
  \/ AddAccount
  \/ GetAllAccounts
  \/ UpdateAccount
  \/ DeleteAccount
  \/ Tick

Spec == Init /\ [][Next]_vars

----------------------------------------------------------------------------
(* No DATABASE_URL: the store is disabled *)
InitDisabled ==
  \E db \in {FreshDb, UsedDb} \cup LeftDbs(1) :
    InitWith(None, Cardinality(Tasks), db, AccountInputs, UpdateInputs)

NextDisabled ==
  \/ Connect
  \/ Disconnect
  \/ FetchActiveAccounts
  \/ IncrementAccountUsage
  \/ UpdateAccountUsage
  \/ AddAccount
  \/ GetAllAccounts
  \/ UpdateAccount
  \/ DeleteAccount
  \/ Tick

SpecDisabled == InitDisabled /\ [][NextDisabled]_vars

(* C1: with no connection string, connect() returns without raising and    *)
(* leaves the pool absent; every later operation, in any order, returns    *)
(* without raising, acquires no connection and leaves the database as it   *)
(* was, and the two reads return an empty sequence.                        *)
C1_DisabledIsSilent ==
  /\ [](database_url = None =>
          /\ pool = None /\ poolState = "absent"
          /\ startup.outcome \in {"not called", "returned"}
          /\ inflight = EmptyBag /\ out = 0
          /\ last.outcome # "raised" /\ ~last.acquired /\ ~last.executed
          /\ (last.op \in ReadOps => last.result = <<>>))
  /\ [][database_url = None => UNCHANGED <<tableExists, table, nextId>>]_vars

C1_Witness ==
  /\ database_url = None /\ startup.outcome = "returned"
  /\ last.op = "delete_account" /\ last.outcome = "returned"
  /\ table = {SeedRow, IdleRow} /\ clock = 2

----------------------------------------------------------------------------
(* Startup and shutdown of a configured store *)
InitStartup ==
  \E db \in {FreshDb, UsedDb} : InitWith(Url, Cardinality(Tasks), db, {}, {})

NextStartup ==
  \/ Connect
  \/ CreatePool
  \/ Acquire
  \/ Execute
  \/ Release
  \/ Disconnect
  \/ CloseDone
  \/ GetAllAccounts
  \/ DeleteAccount

SpecStartup == InitStartup /\ [][NextStartup]_vars

(* C2: with a connection string, connect() returns normally only when      *)
(* pool creation and schema initialization both succeeded, and then the    *)
(* pool handle is set and the table exists; when either step failed,       *)
(* connect() raised.                                                       *)
C2_ConnectHardFails ==
  database_url # None =>
    /\ startup.outcome = "returned" =>
         startup.failure = "none" /\ pool = Handle /\ tableExists
    /\ startup.failure # "none" => startup.outcome = "raised"

C2_Witness ==
  /\ database_url = Url /\ startup.outcome = "returned"
  /\ last.op = "get_all_accounts" /\ last.executed /\ last.outcome = "returned"

(* C9 as stated: whenever connect() raised, there is no pool handle and no *)
(* pool.                                                                   *)
C9_RaisedLeavesNoPool ==
  startup.outcome = "raised" => pool = None /\ poolState = "absent"

(* C9 amended: connect() that raised on pool creation leaves no handle and *)
(* no pool, and no operation ever acquires; connect() that raised on       *)
(* schema initialization leaves the handle set and the pool created.       *)
C9_RaisedKeepsCreatedPool ==
  /\ startup.outcome = "raised" /\ startup.failure = "create_pool" =>
       /\ pool = None /\ poolState = "absent"
       /\ inflight = EmptyBag /\ out = 0 /\ ~last.acquired
  /\ startup.outcome = "raised" /\ startup.failure = "init_schema" =>
       pool = Handle /\ poolState # "absent"

C9_Witness ==
  /\ startup.outcome = "raised" /\ startup.failure = "init_schema"
  /\ ~tableExists /\ poolState = "open"
  /\ last.op = "delete_account" /\ last.acquired /\ last.executed
  /\ last.outcome = "raised"

(* C10: disconnect() never raises and does nothing to a store without a    *)
(* pool; once the pool is closing or closed the handle stays set, and an   *)
(* operation called from then on raises without acquiring a connection.    *)
C10_DisconnectKeepsHandle ==
  /\ last.op = "disconnect" => last.outcome = "returned"
  /\ pool = None => poolState = "absent" /\ out = 0
  /\ poolState \in {"closing", "closed"} => pool = Handle
  /\ last.afterClose /\ last.op # "disconnect" =>
       last.outcome = "raised" /\ ~last.acquired /\ ~last.executed
  /\ \A r \in InFlight :
       r.afterClose /\ r.op # "disconnect" => r.phase = "acquiring"

C10_Witness ==
  /\ startup.outcome = "returned" /\ poolState = "closed" /\ pool = Handle
  /\ last.op = "delete_account" /\ last.afterClose /\ last.outcome = "raised"

----------------------------------------------------------------------------
(* More callers than the pool has connections *)
InitPool == InitWith(Url, max_size + 1, UsedDb, {}, {})

NextPool ==
  \/ Connect
  \/ CreatePool
  \/ Acquire
  \/ Execute
  \/ Release
  \/ GetAllAccounts

SpecPool == InitPool /\ [][NextPool]_vars

(* The connections the coroutines of the set S hold, copies counted *)
RECURSIVE Held(_)
Held(S) ==
  IF S = {} THEN 0
  ELSE LET r == CHOOSE x \in S : TRUE
       IN  r.conns * CopiesIn(r, inflight) + Held(S \ {r})

(* C8: a coroutine holds at most one connection, and holds it exactly      *)
(* between its acquire and the end of its "async with" block, whether the  *)
(* statement ran or failed; at most max_size connections are checked out,  *)
(* and the checked-out connections are exactly those held by coroutines in *)
(* flight, so none is checked out when none is in flight.                  *)
C8_ConnectionsScoped ==
  /\ \A r \in InFlight :
       /\ r.conns <= 1
       /\ r.conns = 1 <=> r.phase \in {"holding", "releasing"}
  /\ out <= max_size
  /\ out = Held(InFlight)

C8_Witness ==
  /\ out = max_size
  /\ \E r \in InFlight : r.phase = "acquiring"
  /\ \E r \in InFlight : r.phase = "releasing" /\ ~r.ok
  /\ last.acquired /\ last.executed /\ last.outcome = "raised"

----------------------------------------------------------------------------
(* Usage tracking among the operations that write rows *)
InitUsage ==
  InitWith(Url, Cardinality(Tasks), FreshDb, {Acct1},
           {Data([name |-> "acct1", request_count |-> 9])})

NextUsage ==
  \/ Connect
  \/ CreatePool
  \/ Acquire
  \/ Execute
  \/ Release
  \/ IncrementAccountUsage
  \/ UpdateAccountUsage
  \/ AddAccount
  \/ UpdateAccount
  \/ DeleteAccount

SpecUsage == InitUsage /\ [][NextUsage]_vars

(* increment_account_usage calls on id whose statement updated the row     *)
(* and that have not returned yet                                          *)
Finishing(id) ==
  BagCardinality([r \in {x \in InFlight : /\ x.op = "increment_account_usage"
                                          /\ x.id = id /\ x.phase = "releasing"
                                          /\ x.matched}
                    |-> CopiesIn(r, inflight)])

(* C3: the request_count of every row is the number of                     *)
(* increment_account_usage calls on its id that updated it: those that     *)
(* returned, plus those whose statement has run and that are about to      *)
(* return. Each adds exactly 1, also when two calls on the id overlap, and *)
(* no other operation changes it.                                          *)
C3_RequestCountCountsIncrements ==
  \A r \in table :
    r.request_count = IF r.id \in CallIds THEN ended[r.id] + Finishing(r.id) ELSE 0

C3_Witness ==
  \E r \in table :
    /\ r.request_count = 2 /\ ended[r.id] = 0 /\ Finishing(r.id) = 2
    /\ last.op = "update_account" /\ last.executed /\ last.outcome = "returned"

----------------------------------------------------------------------------
(* Reading the active accounts of a database that earlier runs filled *)
InitFetch ==
  \E db \in LeftDbs(MaxRows) :
    InitWith(Url, Cardinality(Tasks), db, {}, {})

NextFetch ==
  \/ Connect
  \/ CreatePool
  \/ Acquire
  \/ Execute
  \/ Release
  \/ FetchActiveAccounts

SpecFetch == InitFetch /\ [][NextFetch]_vars

(* The coroutine x ran its statement in this step *)
JustRan(x) ==
  /\ x.phase = "releasing"
  /\ CopiesIn(x, inflight') > CopiesIn(x, inflight)

(* C4: the sequence fetch_active_accounts gets from its statement holds    *)
(* each row whose is_active is true exactly once and no other row, every   *)
(* row with a NULL last_used_at before every row with a non-NULL one, the  *)
(* non-NULL ones in ascending order; the statement changes no row.         *)
C4_FetchActiveOrdered ==
  [][\A x \in BagToSet(inflight') :
       JustRan(x) /\ x.op = "fetch_active_accounts" /\ x.ok =>
         /\ table' = table
         /\ {x.result[i] : i \in 1..Len(x.result)} = {r \in table : r.is_active}
         /\ Len(x.result) = Cardinality({r \in table : r.is_active})
         /\ \A i, j \in 1..Len(x.result) :
              i < j =>
                /\ x.result[j].last_used_at = NULL => x.result[i].last_used_at = NULL
                /\ x.result[i].last_used_at # NULL /\ x.result[j].last_used_at # NULL =>
                     \A ti \in x.result[i].last_used_at, tj \in x.result[j].last_used_at :
                       ti <= tj]_vars

C4_Witness ==
  \E x \in InFlight :
    /\ x.op = "fetch_active_accounts" /\ x.phase = "releasing" /\ x.ok
    /\ Len(x.result) = 2
    /\ x.result[1].last_used_at = NULL
    /\ x.result[2].last_used_at = Ts(1)
    /\ \E r \in table : ~r.is_active /\ r.last_used_at = Ts(0)

----------------------------------------------------------------------------
(* Partial updates of the rows of a used database *)
InitUpdate == InitWith(Url, Cardinality(Tasks), UsedDb, {}, UpdateInputs)

NextUpdate ==
  \/ Connect
  \/ CreatePool
  \/ Acquire
  \/ Execute
  \/ Release
  \/ UpdateAccount

SpecUpdate == InitUpdate /\ [][NextUpdate]_vars

Columns ==
  {"id", "name", "secure_c_ses", "host_c_oses", "csesidx", "config_id",
   "is_active", "request_count", "last_used_at", "created_at"}

Updatable ==
  {"name", "secure_c_ses", "host_c_oses", "csesidx", "config_id", "is_active"}

(* C5: the statement of update_account(id, data) sets, on the row with     *)
(* that id, each of the six updatable columns that is a key of data to the *)
(* value given, and leaves every other column of that row and every other  *)
(* row as it was (a failed statement changes nothing); a call whose data   *)
(* has none of the six keys never acquires or runs a statement: it returns *)
(* at once, without raising and without changing a row.                    *)
C5_UpdateSetsGivenKeysOnly ==
  /\ [](\A x \in InFlight :
          x.op = "update_account" => \E k \in Updatable : x.data[k] # {})
  /\ [][inflight' = inflight /\ last' # last =>
          /\ last'.op = "update_account" /\ last'.outcome = "returned"
          /\ ~last'.acquired /\ ~last'.executed
          /\ UNCHANGED <<table, out>>]_vars
  /\ [][\A x \in BagToSet(inflight') :
          JustRan(x) /\ x.op = "update_account" =>
            IF x.ok
            THEN /\ {r \in table' : r.id # x.id} = {r \in table : r.id # x.id}
                 /\ Cardinality(table') = Cardinality(table)
                 /\ \A r \in table :
                      r.id = x.id =>
                        \E n \in table' :
                          \A c \in Columns :
                            n[c] = IF c \in Updatable /\ x.data[c] # {}
                                   THEN The(x.data[c])
                                   ELSE r[c]
            ELSE table' = table]_vars

C5_Witness ==
  /\ last = Returned("update_account") /\ poolState = "open"
  /\ IdleRow \in table
  /\ \E x \in InFlight :
       /\ x.op = "update_account" /\ x.phase = "releasing" /\ x.ok
       /\ x.data = AllKeys /\ x.id = 1
  /\ \E r \in table :
       /\ r.id = 1 /\ r.name = "n6" /\ r.config_id = "c6" /\ ~r.is_active
       /\ r.request_count = 1 /\ r.last_used_at = Ts(0)

----------------------------------------------------------------------------
(* Adding, deleting and listing rows *)
InitRows ==
  \E db \in {FreshDb, UsedDb} :
    InitWith(Url, Cardinality(Tasks), db, AccountInputs, {})

NextRows ==
  \/ Connect
  \/ CreatePool
  \/ Acquire
  \/ Execute
  \/ Release
  \/ AddAccount
  \/ DeleteAccount
  \/ GetAllAccounts
  \/ FetchActiveAccounts

SpecRows == InitRows /\ [][NextRows]_vars

(* C6: the statement of add_account adds exactly one row: it carries the   *)
(* five values given, request_count 0, is_active true, a NULL last_used_at *)
(* and a non-NULL created_at, and the next value of the id sequence, which *)
(* no row has and which is never handed out again; the rows already there  *)
(* stay as they were. get_all_accounts gets every row exactly once, active *)
(* or not, in ascending order of id.                                       *)
C6_AddMakesOneFreshRow ==
  /\ [](\A r \in table : r.id < nextId)
  /\ [][nextId' >= nextId]_vars
  /\ [][\A x \in BagToSet(inflight') :
          JustRan(x) /\ x.op = "add_account" /\ x.ok =>
            /\ nextId' = nextId + 1
            /\ Cardinality(table') = Cardinality(table) + 1
            /\ \E n \in table' :
                 /\ table' = table \cup {n}
                 /\ n.id = nextId
                 /\ <<n.name, n.secure_c_ses, n.host_c_oses, n.csesidx, n.config_id>>
                      = x.acct
                 /\ n.request_count = 0 /\ n.is_active = TRUE
                 /\ n.last_used_at = NULL /\ n.created_at # NULL]_vars
  /\ [][\A x \in BagToSet(inflight') :
          JustRan(x) /\ x.op = "get_all_accounts" /\ x.ok =>
            /\ table' = table
            /\ {x.result[i] : i \in 1..Len(x.result)} = table
            /\ Len(x.result) = Cardinality(table)
            /\ \A i, j \in 1..Len(x.result) :
                 i < j => x.result[i].id < x.result[j].id]_vars

C6_Witness ==
  /\ nextId = 3 /\ Cardinality(table) = 1
  /\ \E x \in InFlight :
       /\ x.op = "get_all_accounts" /\ x.phase = "releasing" /\ x.ok
       /\ Len(x.result) = 1
       /\ x.result[1] = Row(2, <<None, "sc2", None, "idx2", "cfg2">>, 0)
       /\ x.result[1] \in table

(* C7: the statement of delete_account(id) removes the row with that id    *)
(* and no other row, and removes nothing when no row has the id (a failed  *)
(* statement changes nothing); a row once gone never comes back, and the   *)
(* two reads get rows of the table only, so they never show it again.      *)
C7_DeleteRemovesOneRow ==
  /\ [][\A x \in BagToSet(inflight') :
          JustRan(x) /\ x.op = "delete_account" =>
            table' = IF x.ok THEN {r \in table : r.id # x.id} ELSE table]_vars
  /\ [][\A id \in 1..(nextId - 1) :
          (\A r \in table : r.id # id) => (\A r \in table' : r.id # id)]_vars
  /\ [][\A x \in BagToSet(inflight') :
          JustRan(x) /\ x.op \in ReadOps =>
            \A i \in 1..Len(x.result) : x.result[i] \in table]_vars

C7_Witness ==
  /\ table = {IdleRow}
  /\ last.op = "delete_account" /\ last.executed /\ last.outcome = "returned"
  /\ \E x \in InFlight :
       /\ x.op = "delete_account" /\ x.id = 1
       /\ x.phase = "releasing" /\ x.ok

====
